---- MODULE Spec2Model ----
(***************************************************************************)
(* A model of the worktree tool: the registry store (storage/mod.rs), the  *)
(* target resolution of `remove`, and the create / remove / cleanup        *)
(* commands, together with the git state they act on.                      *)
(*                                                                         *)
(* Strings are sequences of one-character strings, so that sanitizing,     *)
(* `contains`, `split_once` and `format!` are computed character by        *)
(* character as the code computes them.  A text file is the sequence of    *)
(* its newline-terminated lines, or NoFile when it does not exist.         *)
(***************************************************************************)
EXTENDS Naturals, Sequences, FiniteSets, TLC

VARIABLES
    branches,     \* the local branches of the repository (refs/heads)
    dirs,         \* the worktree directories that exist under <root>/<repo>/
    regs,         \* git's worktree registrations, by worktree name
    mapping,      \* <root>/<repo>/.branch-mapping
    origins,      \* <root>/<repo>/.worktree-origins
    managed,      \* the marker files in <root>/<repo>/.managed-branches/
    repoDir,      \* whether <root>/<repo>/ exists
    rootDir,      \* whether the storage root <root>/ exists
    envFiles,     \* the directories that hold a file named .env
    writer,       \* a second process that is writing a registry file: its position
    partial,      \* the marker files that exist but whose content is not yet written
    toolCreated,  \* history: the branch names `worktree create` has created
    last,         \* history: what the last step did
    steps         \* history: the number of steps taken

vars ==
    <<branches, dirs, regs, mapping, origins, managed, repoDir, rootDir, envFiles,
      writer, partial, toolCreated, last, steps>>

----------------------------------------------------------------------------
(* Bounds of the model *)

\* the number of commands and outside changes in one run
MaxSteps == 5

\* the length of a pattern list of the user configuration
MaxPatterns == 2

----------------------------------------------------------------------------
(* Names *)

BrA == <<"a">>
BrAbSlashA == <<"a", "b", "/", "a">>
BrAbDashA == <<"a", "b", "-", "a">>
BrMain == <<"m", "a", "i", "n">>
BrMaster == <<"m", "a", "s", "t", "e", "r">>
BrDev == <<"d", "e", "v">>

\* the branch checked out in the main working tree; it always exists, and so
\* does main, which only the tool may delete
RepoHead == BrDev

\* branch names given to `create` on the command line
Targets == {BrA, BrAbSlashA, BrAbDashA}

\* every branch name of the model
Names == Targets \cup {BrMain, RepoHead}

\* path of the repository, as store_origin_info canonicalizes it
RepoPath == <<"/", "r">>

\* WorktreeStorage::get_repo_name: the last component of the repository path
RepoName == <<"r">>

\* the storage root (WORKTREE_STORAGE_ROOT, or ~/.worktrees)
StorageRoot == <<"/", "s">>

\* a directory outside the storage root; it exists and holds a file .env
OutsideDir == <<"/", "o", "/", "a">>

\* the absolute path of the worktree directory of branch a
InsideDir == <<"/", "s", "/", "r", "/", "a">>

\* absolute paths given to `remove` and `sync-config` on the command line
AbsTargets == {InsideDir, OutsideDir}

\* Option<T>: None, or Some(v)
None == <<>>
Some(v) == <<v>>
Unwrap(opt) == opt[1]

\* `let x = v;` with v evaluated once: F applied to the value of v
Bind(v, F(_)) == CHOOSE r \in {F(x) : x \in {v}} : TRUE

\* a text file: absent, or the sequence of its newline-terminated lines
NoFile == [exists |-> FALSE, lines |-> <<>>]
File(lines) == [exists |-> TRUE, lines |-> lines]

\* the second process: not running, or inside a write at position pc
Idle == [pc |-> "idle"]

\* a git worktree registration (.git/worktrees/<name>): absent, or present with
\* the HEAD it records: Some(branch) for a symbolic HEAD, None for a detached one
NoReg == [registered |-> FALSE, head |-> None]
Reg(head) == [registered |-> TRUE, head |-> head]

----------------------------------------------------------------------------
(* String helpers (Rust std) *)

Arrow == <<" ", "-", ">", " ">>

\* needle occurs in hay at offset i
OccursAt(hay, needle, i) ==
    /\ i + Len(needle) <= Len(hay)
    /\ \A k \in 1..Len(needle) : hay[i + k] = needle[k]

\* str::contains
Contains(hay, needle) == \E i \in 0..Len(hay) : OccursAt(hay, needle, i)

Least(S) == CHOOSE j \in S : \A k \in S : j <= k

\* str::split_once(" -> "): split at the first occurrence, or None
split_once(line) ==
    LET hits == {i \in 0..Len(line) : OccursAt(line, Arrow, i)}
    IN IF hits = {} THEN None
       ELSE LET i == Least(hits)
            IN Some(<<SubSeq(line, 1, i), SubSeq(line, i + Len(Arrow) + 1, Len(line))>>)

\* format!("{} -> {}", key, value)
FormatLine(key, value) == key \o Arrow \o value

\* String::contains on a whole file content: the needle holds no newline, so it
\* is contained in the content iff it is contained in one of its lines
ContentContains(lines, needle) ==
    \E i \in 1..Len(lines) : Contains(lines[i], needle)

\* str::ends_with
EndsWith(s, suffix) ==
    Len(suffix) <= Len(s) /\ OccursAt(s, suffix, Len(s) - Len(suffix))

----------------------------------------------------------------------------
(* Paths (Rust std::path) *)

\* Path::is_absolute
is_absolute(path) == Len(path) > 0 /\ path[1] = "/"

\* Path::components of a path, without the root: the names between separators
RECURSIVE Components(_)
Components(path) ==
    IF path = <<>> THEN <<>>
    ELSE IF Head(path) = "/" THEN Components(Tail(path))
    ELSE LET seps == {i \in 1..Len(path) : path[i] = "/"}
             n == IF seps = {} THEN Len(path) + 1 ELSE Least(seps)
         IN <<SubSeq(path, 1, n - 1)>> \o Components(SubSeq(path, n, Len(path)))

\* Path::strip_prefix for absolute paths: component-wise and purely lexical,
\* the remaining components or None
strip_prefix(path, base) ==
    Bind(<<Components(path), Components(base)>>,
    LAMBDA pb :
       IF /\ is_absolute(path) = is_absolute(base)
          /\ Len(pb[2]) <= Len(pb[1])
          /\ SubSeq(pb[1], 1, Len(pb[2])) = pb[2]
       THEN Some(SubSeq(pb[1], Len(pb[2]) + 1, Len(pb[1])))
       ELSE None)

\* Path::with_extension for a file name: the stem (the name up to its last ".",
\* or all of it when it has no "." after its first character) + "." + extension
with_extension(name, extension) ==
    LET dots == {i \in 2..Len(name) : name[i] = "."}
        Greatest(S) == CHOOSE j \in S : \A k \in S : k <= j
        stem == IF dots = {} THEN name ELSE SubSeq(name, 1, Greatest(dots) - 1)
    IN stem \o <<".">> \o extension

\* Path::file_name: the last component, unless there is none or it is ".."
file_name(components) ==
    IF components = <<>> \/ components[Len(components)] = <<".", ".">>
    THEN None
    ELSE Some(components[Len(components)])

----------------------------------------------------------------------------
(* storage/mod.rs *)

\* WorktreeStorage::new: create_dir_all(root_dir)
WorktreeStorage_new(st) == [st EXCEPT !.rootDir = TRUE]

\* WorktreeStorage::get_repo_storage_dir
get_repo_storage_dir == StorageRoot \o <<"/">> \o RepoName

\* the directory an absolute path names: a worktree directory, by its name,
\* when the path is <root>/<repo>/<name>; else the path itself
PlaceOf(path) ==
    Bind(strip_prefix(path, get_repo_storage_dir),
    LAMBDA rel :
       IF rel # None /\ Len(Unwrap(rel)) = 1 THEN Unwrap(rel)[1] ELSE path)

\* the absolute path of a directory
AbsPath(place) ==
    IF is_absolute(place) THEN place ELSE get_repo_storage_dir \o <<"/">> \o place

\* Path::exists for a directory
Exists(st, place) == place \in st.dirs \/ place = OutsideDir

UnsafeChars == {"/", "\\", ":", "*", "?", "\"", "<", ">", "|"}

sanitize_branch_name(branch_name) ==
    [i \in DOMAIN branch_name |->
        IF branch_name[i] \in UnsafeChars THEN "-" ELSE branch_name[i]]

\* the directory name of get_worktree_path(repo, branch) under the repo's storage dir
get_worktree_path(branch_name) == sanitize_branch_name(branch_name)

get_managed_branch_flag_path(branch_name) == sanitize_branch_name(branch_name)

DirNames == {get_worktree_path(b) : b \in Targets}

\* the value of the first line whose key equals `key`, in file order
FirstMatch(lines, key) ==
    LET HasKey(line) == LET kv == split_once(line)
                        IN kv # None /\ Unwrap(kv)[1] = key
        hits == {i \in 1..Len(lines) : HasKey(lines[i])}
    IN IF hits = {} THEN None
       ELSE Some(Unwrap(split_once(lines[Least(hits)]))[2])

get_original_branch_name(file, sanitized_name) ==
    IF ~file.exists THEN None ELSE FirstMatch(file.lines, sanitized_name)

\* append "<key> -> <value>\n" unless the content already contains "<key> -> <value>"
AppendUnlessContained(file, key, value) ==
    LET existing_content == IF file.exists THEN file.lines ELSE <<>>
    IN IF ~ContentContains(existing_content, FormatLine(key, value))
       THEN File(Append(existing_content, FormatLine(key, value)))
       ELSE file

store_branch_mapping(file, original_branch, sanitized_branch) ==
    AppendUnlessContained(file, sanitized_branch, original_branch)

\* lines().filter(keep).collect().join("\n"); "" if that is empty, else that + "\n"
FilterLines(lines, Keep(_)) ==
    LET kept == SelectSeq(lines, Keep)
    IN IF kept = <<>> \/ kept = << <<>> >> THEN <<>> ELSE kept

remove_branch_mapping(file, original_branch) ==
    IF ~file.exists THEN file
    ELSE LET Keep(line) == LET kv == split_once(line)
                           IN IF kv # None THEN Unwrap(kv)[2] # original_branch
                              ELSE TRUE
         IN File(FilterLines(file.lines, Keep))

mark_branch_managed(flags, branch_name) ==
    flags \cup {get_managed_branch_flag_path(branch_name)}

is_branch_managed(flags, branch_name) ==
    get_managed_branch_flag_path(branch_name) \in flags

unmark_branch_managed(flags, branch_name) ==
    flags \ {get_managed_branch_flag_path(branch_name)}

store_worktree_origin(file, branch_name, origin_path) ==
    AppendUnlessContained(file, sanitize_branch_name(branch_name), origin_path)

get_worktree_origin(file, branch_name) ==
    IF ~file.exists THEN None
    ELSE FirstMatch(file.lines, sanitize_branch_name(branch_name))

remove_worktree_origin(file, branch_name) ==
    IF ~file.exists THEN file
    ELSE LET sanitized_branch == sanitize_branch_name(branch_name)
             Keep(line) == LET kv == split_once(line)
                           IN IF kv # None THEN Unwrap(kv)[1] # sanitized_branch
                              ELSE TRUE
         IN File(FilterLines(file.lines, Keep))

----------------------------------------------------------------------------
(* The state the commands act on, as one record *)

Cur ==
    [branches |-> branches, dirs |-> dirs, regs |-> regs, mapping |-> mapping,
     origins |-> origins, managed |-> managed, repoDir |-> repoDir,
     rootDir |-> rootDir, envFiles |-> envFiles]

----------------------------------------------------------------------------
(* git/mod.rs (GitRepo over libgit2) *)

branch_exists(st, branch_name) == branch_name \in st.branches

\* Repository::find_worktree(name) succeeds
WorktreeRegistered(st, name) == name \in DirNames /\ st.regs[name].registered

\* libgit2 git_branch_is_checked_out: HEAD of the main working tree or of any
\* registered worktree, whether or not that worktree's directory still exists
IsCheckedOut(st, branch_name) ==
    \/ branch_name = RepoHead
    \/ \E d \in DirNames : st.regs[d] = Reg(Some(branch_name))

IsPrefix(p, s) == Len(p) <= Len(s) /\ SubSeq(s, 1, Len(p)) = p

\* refs/heads/<x> and refs/heads/<x>/<y> cannot both exist
RefConflict(b1, b2) ==
    \/ IsPrefix(Append(b1, "/"), b2)
    \/ IsPrefix(Append(b2, "/"), b1)

CanCreateRef(st, branch_name) ==
    /\ branch_name \notin st.branches
    /\ \A b \in st.branches : ~RefConflict(b, branch_name)

\* GitRepo::create_worktree: create the branch if asked, then add a worktree
\* named after the directory with the branch as its HEAD
create_worktree(st, branch_name, worktree_path, create_branch) ==
    IF create_branch /\ ~CanCreateRef(st, branch_name)
    THEN [ok |-> FALSE, st |-> st]
    ELSE Bind(IF create_branch
              THEN [st EXCEPT !.branches = @ \cup {branch_name}]
              ELSE st,
         LAMBDA st1 :
            IF \/ branch_name \notin st1.branches
               \/ IsCheckedOut(st1, branch_name)
               \/ WorktreeRegistered(st1, worktree_path)
               \/ worktree_path \in st1.dirs
            THEN [ok |-> FALSE, st |-> st1]
            ELSE [ok |-> TRUE,
                  st |-> [st1 EXCEPT !.dirs = @ \cup {worktree_path},
                                     !.regs[worktree_path] = Reg(Some(branch_name))]])

\* GitRepo::remove_worktree: find_worktree, then prune (valid worktrees too)
remove_worktree(st, worktree_name) ==
    IF ~WorktreeRegistered(st, worktree_name)
    THEN [ok |-> FALSE, st |-> st]
    ELSE [ok |-> TRUE, st |-> [st EXCEPT !.regs[worktree_name] = NoReg]]

\* GitRepo::delete_branch: find_branch, then Branch::delete
delete_branch(st, branch_name) ==
    IF branch_name \notin st.branches \/ IsCheckedOut(st, branch_name)
    THEN [ok |-> FALSE, st |-> st]
    ELSE [ok |-> TRUE, st |-> [st EXCEPT !.branches = @ \ {branch_name}]]

\* refs/heads in git's iteration order (sorted by name)
BranchOrder == <<BrA, BrAbDashA, BrAbSlashA, BrDev, BrMain>>

list_local_branches(st) ==
    LET InRepo(b) == b \in st.branches IN SelectSeq(BranchOrder, InRepo)

----------------------------------------------------------------------------
(* commands/create.rs *)

Modes == {"Smart", "NewBranch", "ExistingBranch"}

\* the result of a command: its outcome, the state it leaves, and the branches
\* it tried to delete and did delete
Outcome(res, st, attempted, deleted) ==
    [res |-> res, st |-> st, attempted |-> attempted, deleted |-> deleted]

\* patterns and files of the model, as strings
PEnvStar == <<".", "e", "n", "v", "*">>
PVscodeDir == <<".", "v", "s", "c", "o", "d", "e", "/">>
PLocalJson == <<"*", ".", "l", "o", "c", "a", "l", ".", "j", "s", "o", "n">>
PConfigLocal == <<"c", "o", "n", "f", "i", "g", "/", "l", "o", "c", "a", "l", "/", "*">>
PNodeModulesDir == <<"n", "o", "d", "e", "_", "m", "o", "d", "u", "l", "e", "s", "/">>
PTargetDir == <<"t", "a", "r", "g", "e", "t", "/">>
PGitDir == <<".", "g", "i", "t", "/">>
PLog == <<"*", ".", "l", "o", "g">>
PTmp == <<"*", ".", "t", "m", "p">>
PMise == <<"m", "i", "s", "e", ".", "t", "o", "m", "l">>
PNodeCache == <<"n", "o", "d", "e", "_", "m", "o", "d", "u", "l", "e", "s", "/", ".", "c", "a", "c", "h", "e">>

\* WorktreeConfig::default_include_patterns
default_include_patterns == <<PEnvStar, PVscodeDir, PLocalJson, PConfigLocal>>

\* WorktreeConfig::default_exclude_patterns
default_exclude_patterns == <<PNodeModulesDir, PTargetDir, PGitDir, PLog, PTmp>>

\* CopyPatterns: include and exclude are Option<Vec<String>>
CopyPatterns(include, exclude) == [include |-> include, exclude |-> exclude]

\* WorktreeConfig::default
WorktreeConfig_default ==
    CopyPatterns(Some(default_include_patterns), Some(default_exclude_patterns))

Range(seq) == {seq[i] : i \in DOMAIN seq}

\* for pattern in patterns { if !merged.contains(&pattern) { merged.push(pattern) } }
RECURSIVE PushMissing(_, _)
PushMissing(merged, patterns) ==
    IF patterns = <<>> THEN merged
    ELSE PushMissing(IF Head(patterns) \in Range(merged) THEN merged
                     ELSE Append(merged, Head(patterns)),
                     Tail(patterns))

\* the merge as it would be if a pattern the user includes were taken out of
\* the exclude list
merged_with_defaults_overriding(config) ==
    LET user_includes == IF config.include # None THEN Unwrap(config.include) ELSE <<>>
        user_excludes == IF config.exclude # None THEN Unwrap(config.exclude) ELSE <<>>
        Kept(pattern) == pattern \notin Range(user_includes)
    IN CopyPatterns(Some(PushMissing(default_include_patterns, user_includes)),
                    Some(SelectSeq(PushMissing(default_exclude_patterns, user_excludes),
                                   Kept)))

\* WorktreeConfig::merged_with_defaults
merged_with_defaults(config) ==
    LET user_includes == IF config.include # None THEN Unwrap(config.include) ELSE <<>>
        user_excludes == IF config.exclude # None THEN Unwrap(config.exclude) ELSE <<>>
    IN CopyPatterns(Some(PushMissing(default_include_patterns, user_includes)),
                    Some(PushMissing(default_exclude_patterns, user_excludes)))

\* WorktreeConfig::load_from_repo: the defaults when there is no
\* .worktree-config.toml, else the parsed configuration merged with them
load_from_repo(config_file) ==
    IF config_file = None THEN WorktreeConfig_default
    ELSE merged_with_defaults(Unwrap(config_file))

\* glob::Pattern::matches for patterns of literal characters and "*": "*" stands
\* for any run of characters, without "/" when the match is one of glob::glob,
\* which walks the directories
RECURSIVE GlobMatches(_, _, _)
GlobMatches(pattern, str, literal_separator) ==
    IF pattern = <<>> THEN str = <<>>
    ELSE IF Head(pattern) = "*"
    THEN \E k \in 0..Len(str) :
            /\ literal_separator => \A i \in 1..k : str[i] # "/"
            /\ GlobMatches(Tail(pattern), SubSeq(str, k + 1, Len(str)), literal_separator)
    ELSE /\ str # <<>>
         /\ Head(str) = Head(pattern)
         /\ GlobMatches(Tail(pattern), Tail(str), literal_separator)

\* pattern.contains('*')
IsGlob(pattern) == \E i \in DOMAIN pattern : pattern[i] = "*"

\* a directory tree is the set of the files in it, each by its path relative to
\* the top; its directories are the proper ancestors of its files
Ancestors(file) == {SubSeq(file, 1, i - 1) : i \in {j \in DOMAIN file : file[j] = "/"}}

Entries(tree) == tree \cup UNION {Ancestors(file) : file \in tree}

IsDirectory(tree, entry) == \E file \in tree : entry \in Ancestors(file)

\* the files that are an entry or lie below it
FilesUnder(tree, entry) == {file \in tree : file = entry \/ entry \in Ancestors(file)}

\* find_matching_files: the paths of the entries a pattern selects; a pattern
\* with "*" is expanded by glob::glob, another one is joined to the base path
\* as it is and selected when that path exists
find_matching_files(base_path, tree, pattern) ==
    IF IsGlob(pattern)
    THEN {[path |-> base_path \o <<"/">> \o entry, entry |-> entry] :
             entry \in {e \in Entries(tree) : GlobMatches(pattern, e, TRUE)}}
    ELSE LET is_dir_pattern == EndsWith(pattern, <<"/">>)
             entry == IF is_dir_pattern THEN SubSeq(pattern, 1, Len(pattern) - 1)
                      ELSE pattern
         IN IF entry \in Entries(tree) /\ (is_dir_pattern => IsDirectory(tree, entry))
            THEN {[path |-> base_path \o <<"/">> \o pattern, entry |-> entry]}
            ELSE {}

should_exclude_file(file_path, exclude_patterns) ==
    \E i \in DOMAIN exclude_patterns :
        IF IsGlob(exclude_patterns[i])
        THEN GlobMatches(exclude_patterns[i], file_path, FALSE)
        ELSE Contains(file_path, exclude_patterns[i])

\* copy_config_files over a source tree: the files it copies, by relative path;
\* a selected file is copied, a selected directory with everything below it
CopiedFiles(source_path, tree, config) ==
    LET include == IF config.include # None THEN Unwrap(config.include) ELSE <<>>
        exclude == IF config.exclude # None THEN Unwrap(config.exclude) ELSE <<>>
        matches == UNION {find_matching_files(source_path, tree, include[i]) :
                             i \in DOMAIN include}
    IN UNION {FilesUnder(tree, source_file.entry) :
                 source_file \in {m \in matches : ~should_exclude_file(m.path, exclude)}}

\* the one configuration file of the command model
EnvFile == <<".", "e", "n", "v">>

\* copy_config_files as create and sync-config call it in a repository without
\* a .worktree-config.toml: the .env of the source directory is copied into the
\* target directory when the default patterns select it
copy_config_files(st, source_path, target_path) ==
    IF /\ source_path \in st.envFiles
       /\ EnvFile \in CopiedFiles(AbsPath(source_path), {EnvFile}, WorktreeConfig_default)
    THEN [st EXCEPT !.envFiles = @ \cup {target_path}]
    ELSE st

\* what create does once the worktree is added: store_branch_mapping,
\* copy_config_files, store_origin_info, and mark_branch_managed if it created
\* the branch
StoreCreateMetadata(st, branch, sanitized_name, create_branch) ==
    [copy_config_files(st, RepoPath, sanitized_name) EXCEPT
        !.mapping = store_branch_mapping(@, branch, sanitized_name),
        !.origins = store_worktree_origin(@, branch, RepoPath),
        !.managed = IF create_branch THEN mark_branch_managed(@, branch) ELSE @]

\* create as it would be if it made the repository's storage directory before
\* its pre-flight checks
create_worktree_internal_early_mkdir(st0, branch, mode) ==
    LET st == [WorktreeStorage_new(st0) EXCEPT !.repoDir = TRUE]
        worktree_path == get_worktree_path(branch)
        exists == branch_exists(st, branch)
        create_branch == ~exists
    IN IF worktree_path \in st.dirs THEN Outcome("path_exists", st, {}, {})
       ELSE IF mode = "NewBranch" /\ exists THEN Outcome("branch_exists", st, {}, {})
       ELSE IF mode = "ExistingBranch" /\ ~exists THEN Outcome("branch_missing", st, {}, {})
       ELSE Bind(create_worktree(st, branch, worktree_path, create_branch),
            LAMBDA git :
               IF ~git.ok THEN Outcome("git_failed", git.st, {}, {})
               ELSE Outcome("ok",
                            StoreCreateMetadata(git.st, branch, worktree_path, create_branch),
                            {}, {}))

create_worktree_internal(st0, branch, mode) ==
    LET st == WorktreeStorage_new(st0)
        worktree_path == get_worktree_path(branch)
        exists == branch_exists(st, branch)
        create_branch == ~exists
    IN IF worktree_path \in st.dirs THEN Outcome("path_exists", st, {}, {})
       ELSE IF mode = "NewBranch" /\ exists THEN Outcome("branch_exists", st, {}, {})
       ELSE IF mode = "ExistingBranch" /\ ~exists THEN Outcome("branch_missing", st, {}, {})
       ELSE \* create_dir_all(parent), then git_repo.create_worktree
            Bind(create_worktree([st EXCEPT !.repoDir = TRUE], branch, worktree_path,
                                 create_branch),
            LAMBDA git :
               IF ~git.ok THEN Outcome("git_failed", git.st, {}, {})
               ELSE Outcome("ok",
                            StoreCreateMetadata(git.st, branch, worktree_path, create_branch),
                            {}, {}))

----------------------------------------------------------------------------
(* commands/remove.rs *)

contains_special_chars(s) == \E i \in DOMAIN s : s[i] \in UnsafeChars

Resolved(path, branch) == [ok |-> TRUE, path |-> path, branch |-> branch, err |-> "none"]
Unresolved(err) == [ok |-> FALSE, path |-> <<>>, branch |-> <<>>, err |-> err]

\* resolve_target for an absolute path: a path whose prefix is the repository's
\* storage directory resolves to itself and the branch its last component maps
\* to, or that component when no row maps it
resolve_absolute_target(target, st) ==
    Bind(strip_prefix(target, get_repo_storage_dir),
    LAMBDA relative_path :
       IF relative_path # None /\ file_name(Unwrap(relative_path)) # None
       THEN Bind(Unwrap(file_name(Unwrap(relative_path))),
            LAMBDA sanitized_name :
               Bind(get_original_branch_name(st.mapping, sanitized_name),
               LAMBDA original_branch :
                  Resolved(PlaceOf(target),
                           IF original_branch # None THEN Unwrap(original_branch)
                           ELSE sanitized_name)))
       ELSE Unresolved("invalid_path"))

\* resolve_target as it would be without the check of the branch list: a name
\* with a directory but no mapping row is taken to be the branch
resolve_target_guessing(target, st) ==
    LET worktree_path == get_worktree_path(target)
    IN IF is_absolute(target) THEN resolve_absolute_target(target, st)
       ELSE IF contains_special_chars(target)
       THEN IF worktree_path \in st.dirs
            THEN Resolved(worktree_path, target)
            ELSE Unresolved("no_worktree_for_branch")
       ELSE Bind(get_original_branch_name(st.mapping, target),
            LAMBDA mapped :
               IF worktree_path \in st.dirs
               THEN IF mapped # None THEN Resolved(worktree_path, Unwrap(mapped))
                    ELSE Resolved(worktree_path, target)
               ELSE IF mapped # None /\ get_worktree_path(Unwrap(mapped)) \in st.dirs
                    THEN Resolved(get_worktree_path(Unwrap(mapped)), Unwrap(mapped))
                    ELSE Unresolved("no_worktree_matching"))

\* resolve_target as it would be if it trusted only the mapping file: a name
\* with a directory but no mapping row is an error even when the branch exists
resolve_target_requiring_mapping(target, st) ==
    LET worktree_path == get_worktree_path(target)
    IN IF is_absolute(target) THEN resolve_absolute_target(target, st)
       ELSE IF contains_special_chars(target)
       THEN IF worktree_path \in st.dirs
            THEN Resolved(worktree_path, target)
            ELSE Unresolved("no_worktree_for_branch")
       ELSE Bind(get_original_branch_name(st.mapping, target),
            LAMBDA mapped :
               IF worktree_path \in st.dirs
               THEN IF mapped # None THEN Resolved(worktree_path, Unwrap(mapped))
                    ELSE Unresolved("cannot_determine_canonical")
               ELSE IF mapped # None /\ get_worktree_path(Unwrap(mapped)) \in st.dirs
                    THEN Resolved(get_worktree_path(Unwrap(mapped)), Unwrap(mapped))
                    ELSE Unresolved("no_worktree_matching"))

resolve_target(target, st) ==
    LET worktree_path == get_worktree_path(target)
    IN IF is_absolute(target) THEN resolve_absolute_target(target, st)
       ELSE IF contains_special_chars(target)
       THEN IF worktree_path \in st.dirs
            THEN Resolved(worktree_path, target)
            ELSE Unresolved("no_worktree_for_branch")
       ELSE Bind(get_original_branch_name(st.mapping, target),
            LAMBDA mapped :
               IF worktree_path \in st.dirs
               THEN IF mapped # None THEN Resolved(worktree_path, Unwrap(mapped))
                    ELSE IF target \in st.branches THEN Resolved(worktree_path, target)
                    ELSE Unresolved("cannot_determine_canonical")
               ELSE IF mapped # None /\ get_worktree_path(Unwrap(mapped)) \in st.dirs
                    THEN Resolved(get_worktree_path(Unwrap(mapped)), Unwrap(mapped))
                    ELSE Unresolved("no_worktree_matching"))

\* Repository::open(worktree_path), head(), is_branch(), shorthand()
resolve_branch_from_worktree_head(st, worktree_path) ==
    IF /\ worktree_path \in st.dirs
       /\ WorktreeRegistered(st, worktree_path)
       /\ st.regs[worktree_path].head # None
       /\ Unwrap(st.regs[worktree_path].head) \in st.branches
    THEN st.regs[worktree_path].head
    ELSE None

\* the branch remove acts on: the worktree's HEAD, else the mapping row of the
\* directory name, else the branch the target resolved to
ResolvedBranchName(st, worktree_path, branch_name) ==
    Bind(resolve_branch_from_worktree_head(st, worktree_path),
    LAMBDA head :
       IF head # None THEN Unwrap(head)
       ELSE Bind(get_original_branch_name(st.mapping, worktree_path),
            LAMBDA original :
               IF original # None THEN Unwrap(original) ELSE branch_name))

\* remove, from the deletion of the directory on
RemoveResolved(st, worktree_path, resolved_branch_name, preserve_branch) ==
    \* fs::remove_dir_all(worktree_path), then git_repo.remove_worktree
    Bind(remove_worktree([st EXCEPT !.dirs = @ \ {worktree_path},
                                    !.envFiles = @ \ {worktree_path}],
                         worktree_path),
    LAMBDA git :
       IF ~git.ok THEN Outcome("git_remove_failed", git.st, {}, {})
       ELSE Bind([git.st EXCEPT
                     !.origins = remove_worktree_origin(@, resolved_branch_name)],
            LAMBDA st2 :
               IF preserve_branch THEN Outcome("ok", st2, {}, {})
               ELSE Bind(delete_branch(st2, resolved_branch_name),
                    LAMBDA del :
                       IF ~del.ok
                       THEN Outcome("ok", st2, {resolved_branch_name}, {})
                       ELSE Outcome("ok",
                               [del.st EXCEPT
                                   !.managed = unmark_branch_managed(@, resolved_branch_name),
                                   !.mapping = remove_branch_mapping(@, resolved_branch_name)],
                               {resolved_branch_name}, {resolved_branch_name}))))

remove_worktree_with_provider(st0, target, preserve_branch) ==
    Bind(WorktreeStorage_new(st0),
    LAMBDA st :
    Bind(resolve_target(target, st),
    LAMBDA rt :
       IF ~rt.ok THEN Outcome(rt.err, st, {}, {})
       ELSE IF rt.path \notin st.dirs THEN Outcome("path_missing", st, {}, {})
       ELSE Bind(ResolvedBranchName(st, rt.path, rt.branch),
            LAMBDA resolved_branch_name :
               RemoveResolved(st, rt.path, resolved_branch_name, preserve_branch))))

\* the i-th mutation of remove, in the order of the code: the directory, git's
\* registration, the origin row, the branch, the managed marker, the mapping row
RemoveStep(st, worktree_path, resolved_branch_name, i) ==
    CASE i = 1 -> [st EXCEPT !.dirs = @ \ {worktree_path},
                             !.envFiles = @ \ {worktree_path}]
      [] i = 2 -> remove_worktree(st, worktree_path).st
      [] i = 3 -> [st EXCEPT !.origins = remove_worktree_origin(@, resolved_branch_name)]
      [] i = 4 -> delete_branch(st, resolved_branch_name).st
      [] i = 5 -> [st EXCEPT !.managed = unmark_branch_managed(@, resolved_branch_name)]
      [] OTHER -> [st EXCEPT !.mapping = remove_branch_mapping(@, resolved_branch_name)]

\* the state a remove leaves when the process stops after its first k mutations
RECURSIVE RemovePrefix(_, _, _, _)
RemovePrefix(st, worktree_path, resolved_branch_name, k) ==
    IF k = 0 THEN st
    ELSE RemoveStep(RemovePrefix(st, worktree_path, resolved_branch_name, k - 1),
                    worktree_path, resolved_branch_name, k)

\* the points between two mutations of remove at which the process may stop
CrashPoints == 1..5

----------------------------------------------------------------------------
(* commands/jump.rs *)

\* read_dir of the repository's storage directory, .managed-branches left out
DirOrder == <<BrA, BrAbDashA>>

list_repo_worktrees(st) ==
    LET IsDir(d) == d \in st.dirs IN SelectSeq(DirOrder, IsDir)

\* another repository, q, in the same storage root: its worktrees a and ab,
\* as get_available_worktrees lists them (repository, display name, path)
OtherRepoWorktrees ==
    << [repo |-> <<"q">>, branch |-> BrA, path |-> <<"/", "s", "/", "q", "/", "a">>],
       [repo |-> <<"q">>, branch |-> <<"a", "b">>,
        path |-> <<"/", "s", "/", "q", "/", "a", "b">>] >>

\* the worktrees of this repository, or of all repositories of the storage
\* root, each with the branch name the mapping file gives for its directory
get_available_worktrees(st, current_repo_only) ==
    Bind(list_repo_worktrees(st),
    LAMBDA repo_worktrees :
       Bind([i \in DOMAIN repo_worktrees |->
                [repo |-> RepoName,
                 branch |-> Bind(get_original_branch_name(st.mapping, repo_worktrees[i]),
                            LAMBDA original :
                               IF original # None THEN Unwrap(original)
                               ELSE repo_worktrees[i]),
                 path |-> AbsPath(repo_worktrees[i])]],
       LAMBDA worktrees :
          IF current_repo_only THEN worktrees ELSE worktrees \o OtherRepoWorktrees))

\* the first worktree whose name is the target; else the only one whose name
\* contains it; else an error
find_worktree_by_name(worktrees, target) ==
    LET exact == {i \in DOMAIN worktrees : worktrees[i].branch = target}
        IsMatch(w) == Contains(w.branch, target)
    IN IF exact # {} THEN [res |-> "ok", path |-> worktrees[Least(exact)].path]
       ELSE Bind(SelectSeq(worktrees, IsMatch),
            LAMBDA matches :
               IF Len(matches) = 0 THEN [res |-> "no_match", path |-> <<>>]
               ELSE IF Len(matches) = 1 THEN [res |-> "ok", path |-> matches[1].path]
               ELSE [res |-> "ambiguous", path |-> <<>>])

\* jump --list-completions: the display names of the available worktrees, one
\* line each
list_worktree_completions(st, current_repo_only) ==
    Bind(get_available_worktrees(st, current_repo_only),
    LAMBDA worktrees : [i \in DOMAIN worktrees |-> worktrees[i].branch])

jump_worktree(st0, target, current_repo_only) ==
    Bind(WorktreeStorage_new(st0),
    LAMBDA st :
       Outcome(find_worktree_by_name(get_available_worktrees(st, current_repo_only),
                                     target).res,
               st, {}, {}))

\* names given to `jump` on the command line
JumpTargets == {BrA, <<"b">>}

----------------------------------------------------------------------------
(* commands/sync_config.rs *)

\* resolve_worktree_path: an absolute path that exists is taken as it is, any
\* other target as the name of a branch of this repository
resolve_worktree_path(st, target) ==
    IF is_absolute(target) /\ Exists(st, PlaceOf(target))
    THEN PlaceOf(target)
    ELSE get_worktree_path(target)

sync_config(st0, from, to) ==
    Bind(WorktreeStorage_new(st0),
    LAMBDA st :
       Bind(<<resolve_worktree_path(st, from), resolve_worktree_path(st, to)>>,
       LAMBDA paths :
          IF ~Exists(st, paths[1]) THEN Outcome("source_missing", st, {}, {})
          ELSE IF ~Exists(st, paths[2]) THEN Outcome("target_missing", st, {}, {})
          ELSE Outcome("ok", copy_config_files(st, paths[1], paths[2]), {}, {})))

\* worktrees given to `sync-config` on the command line
SyncTargets == {BrA, InsideDir, OutsideDir}

----------------------------------------------------------------------------
(* commands/cleanup.rs *)

main_branches == {BrMain, BrMaster}

\* pass 1, one iteration of the loop over the local branches: an orphaned
\* branch gets one delete attempt; a failed delete is logged and the loop goes on
CleanupBranch(acc, branch) ==
    IF branch \in main_branches \/ get_worktree_path(branch) \in acc.st.dirs
    THEN acc
    ELSE Bind(delete_branch(acc.st, branch),
         LAMBDA del :
            Outcome("ok", del.st, acc.attempted \cup {branch},
                    IF del.ok THEN acc.deleted \cup {branch} ELSE acc.deleted))

\* pass 1 as it would be if a failed delete ended the loop
RECURSIVE CleanupBranches_stop_on_failure(_, _)
CleanupBranches_stop_on_failure(list, acc) ==
    IF list = <<>> THEN acc
    ELSE Bind(CleanupBranch(acc, Head(list)),
         LAMBDA next :
            IF next.attempted # acc.attempted /\ next.deleted = acc.deleted
            THEN next
            ELSE CleanupBranches_stop_on_failure(Tail(list), next))

RECURSIVE CleanupBranches(_, _)
CleanupBranches(list, acc) ==
    IF list = <<>> THEN acc
    ELSE Bind(CleanupBranch(acc, Head(list)),
         LAMBDA next : CleanupBranches(Tail(list), next))

\* str::trim().is_empty()
IsBlank(line) == \A i \in DOMAIN line : line[i] = " "

\* pass 2 as it would be if it kept the rows whose branch exists, whatever the
\* state of the worktree directory
CleanupMappings_by_branch(st) ==
    LET lines == st.mapping.lines
        IsRow(line) == ~IsBlank(line) /\ split_once(line) # None
        HasBranch(line) == Unwrap(split_once(line))[2] \in st.branches
        KeepRow(line) == IsRow(line) /\ HasBranch(line)
        DropRow(line) == IsRow(line) /\ ~HasBranch(line)
    IN IF st.repoDir /\ st.mapping.exists /\ SelectSeq(lines, DropRow) # <<>>
       THEN Bind(SelectSeq(lines, KeepRow),
            LAMBDA new_lines :
               [st EXCEPT !.mapping =
                   File(IF new_lines = <<>> THEN << <<>> >> ELSE new_lines)])
       ELSE st

\* pass 2: keep the rows whose worktree directory exists; rewrite the file only
\* when a row was dropped, as new_lines.join("\n") + "\n"
CleanupMappings(st) ==
    LET lines == st.mapping.lines
        IsRow(line) == ~IsBlank(line) /\ split_once(line) # None
        HasDir(line) == get_worktree_path(Unwrap(split_once(line))[2]) \in st.dirs
        \* new_lines.push(line)
        KeepRow(line) == IsRow(line) /\ HasDir(line)
        \* removed_mappings.push(original)
        DropRow(line) == IsRow(line) /\ ~HasDir(line)
    IN IF st.repoDir /\ st.mapping.exists /\ SelectSeq(lines, DropRow) # <<>>
       THEN Bind(SelectSeq(lines, KeepRow),
            LAMBDA new_lines :
               [st EXCEPT !.mapping =
                   File(IF new_lines = <<>> THEN << <<>> >> ELSE new_lines)])
       ELSE st

\* pass 3: `git worktree list --porcelain` entries that have a "branch" line and
\* whose directory is gone are pruned
OrphanedWorktrees(st) ==
    {d \in DirNames : /\ st.regs[d].registered
                      /\ st.regs[d].head # None
                      /\ d \notin st.dirs}

\* pass 3 as it would be if it also removed the directory of a worktree
\* whose branch no longer exists
CleanupRegistrations_removing_dirs(st) ==
    Bind({d \in DirNames : /\ st.regs[d].registered
                           /\ d \in st.dirs
                           /\ \A b \in st.branches : st.regs[d].head # Some(b)},
    LAMBDA gone :
       Bind(OrphanedWorktrees(st) \cup gone,
       LAMBDA orphaned_worktrees :
          [st EXCEPT !.dirs = @ \ gone,
                     !.regs = [d \in DirNames |->
                                  IF d \in orphaned_worktrees THEN NoReg ELSE @[d]]]))

CleanupRegistrations(st) ==
    Bind(OrphanedWorktrees(st),
    LAMBDA orphaned_worktrees :
       [st EXCEPT !.regs = [d \in DirNames |->
                               IF d \in orphaned_worktrees THEN NoReg ELSE @[d]]])

\* the calls of cleanup whose failure the model considers: the enumeration of
\* the branches (git) and the write of the mapping file (refused at open, so
\* that the file stays as it was)
Faults == {"list_local_branches", "write_mapping"}

\* cleanup when the call named by `fault` fails if it is reached; the `?` on
\* that call ends the command
cleanup_worktrees_io(st0, fault) ==
    Bind(WorktreeStorage_new(st0),
    LAMBDA st :
       IF fault = "list_local_branches"
       THEN Outcome("list_branches_failed", st, {}, {})
       ELSE Bind(list_local_branches(st),
            LAMBDA list :
               Bind(CleanupBranches(list, Outcome("ok", st, {}, {})),
               LAMBDA pass1 :
                  Bind(CleanupMappings(pass1.st),
                  LAMBDA st2 :
                     \* the file is written only when a row was dropped
                     IF fault = "write_mapping" /\ st2 # pass1.st
                     THEN Outcome("write_mapping_failed", pass1.st,
                                  pass1.attempted, pass1.deleted)
                     ELSE Outcome("ok", CleanupRegistrations(st2),
                                  pass1.attempted, pass1.deleted)))))

cleanup_worktrees(st) == cleanup_worktrees_io(st, "none")

----------------------------------------------------------------------------
(* The state machine *)

\* what the last step did: the command, its argument, its outcome, and the
\* branches it tried to delete and did delete
Last(op, arg, out) ==
    [op |-> op, arg |-> arg, res |-> out.res,
     attempted |-> out.attempted, deleted |-> out.deleted]

Apply(st) ==
    /\ branches' = st.branches
    /\ dirs' = st.dirs
    /\ regs' = st.regs
    /\ mapping' = st.mapping
    /\ origins' = st.origins
    /\ managed' = st.managed
    /\ repoDir' = st.repoDir
    /\ rootDir' = st.rootDir
    /\ envFiles' = st.envFiles
    /\ steps < MaxSteps
    /\ steps' = steps + 1
    /\ UNCHANGED <<writer, partial>>

Init ==
    /\ branches = {RepoHead, BrMain}
    /\ dirs = {}
    /\ regs = [d \in DirNames |-> NoReg]
    /\ mapping = NoFile
    /\ origins = NoFile
    /\ managed = {}
    /\ repoDir = FALSE
    /\ rootDir = FALSE
    /\ envFiles = {OutsideDir}
    /\ writer = Idle
    /\ partial = {}
    /\ toolCreated = {}
    /\ steps = 0
    /\ last = Last("init", <<>>, Outcome("ok", Cur, {}, {}))

\* `worktree create <branch>` with --new-branch / --existing-branch / neither
Create ==
    \E branch \in Targets, mode \in Modes :
        \E out \in {create_worktree_internal(Cur, branch, mode)} :
           /\ Apply(out.st)
           /\ toolCreated' = toolCreated \cup (out.st.branches \ branches)
           /\ last' = Last("create", branch, out)

\* `worktree remove <target>` with or without --preserve-branch
Remove ==
    \E target \in Targets, preserve_branch \in BOOLEAN :
        \E out \in {remove_worktree_with_provider(Cur, target, preserve_branch)} :
           /\ Apply(out.st)
           /\ last' = Last(IF preserve_branch THEN "remove_preserve" ELSE "remove",
                           target, out)
           /\ UNCHANGED toolCreated

\* `worktree cleanup`
Cleanup ==
    \E out \in {cleanup_worktrees(Cur)} :
       /\ Apply(out.st)
       /\ last' = Last("cleanup", <<>>, out)
       /\ UNCHANGED toolCreated

Outside(op) == Last(op, <<>>, Outcome("ok", Cur, {}, {}))

\* `git branch <b>` outside the tool
GitBranchCreate ==
    \E b \in Targets :
        /\ CanCreateRef(Cur, b)
        /\ Apply([Cur EXCEPT !.branches = @ \cup {b}])
        /\ last' = Outside("git_branch")
        /\ UNCHANGED toolCreated

\* `git branch -D <b>` outside the tool: git refuses a checked-out branch
GitBranchDelete ==
    \E b \in branches \cap Targets :
        /\ ~IsCheckedOut(Cur, b)
        /\ Apply([Cur EXCEPT !.branches = @ \ {b}])
        /\ last' = Outside("git_branch_delete")
        /\ UNCHANGED toolCreated

\* `git checkout --detach` / `git checkout main` inside a worktree
GitCheckout ==
    \E d \in dirs, h \in {None, Some(BrMain)} :
        /\ regs[d].registered
        /\ h # None => Unwrap(h) \in branches /\ ~IsCheckedOut(Cur, Unwrap(h))
        /\ regs[d] # Reg(h)
        /\ Apply([Cur EXCEPT !.regs[d] = Reg(h)])
        /\ last' = Outside("git_checkout")
        /\ UNCHANGED toolCreated

\* `rm -rf <worktree directory>` outside the tool
RemoveDir ==
    \E d \in dirs :
        /\ Apply([Cur EXCEPT !.dirs = @ \ {d}, !.envFiles = @ \ {d}])
        /\ last' = Outside("rm_dir")
        /\ UNCHANGED toolCreated

Next ==
    \/ Create
    \/ Remove
    \/ Cleanup
    \/ GitBranchCreate
    \/ GitBranchDelete
    \/ GitCheckout
    \/ RemoveDir

Spec == Init /\ [][Next]_vars

\* `worktree cleanup` during which a call fails
CleanupFault ==
    \E fault \in Faults :
        \E out \in {cleanup_worktrees_io(Cur, fault)} :
           /\ out.res # "ok"
           /\ Apply(out.st)
           /\ last' = Last("cleanup", <<>>, out)
           /\ UNCHANGED toolCreated

\* `worktree remove <target>` that would delete the branch, when the process
\* stops after the first k of its mutations
RemoveCrash ==
    \E target \in Targets, k \in CrashPoints :
        \E full \in {remove_worktree_with_provider(Cur, target, FALSE)} :
           /\ full.res = "ok"
           /\ full.deleted # {}
           /\ \E st \in {WorktreeStorage_new(Cur)}, b \in full.deleted :
                 Apply(RemovePrefix(st, resolve_target(target, st).path, b, k))
           /\ last' = Last("remove_crash", target,
                           Outcome("crashed", Cur, full.deleted, {}))
           /\ UNCHANGED toolCreated

NextFaults ==
    \/ Next
    \/ CleanupFault
    \/ RemoveCrash

\* the tool in an environment where a call may fail and the process may stop
SpecFaults == Init /\ [][NextFaults]_vars

\* `worktree jump <target>` over all repositories, or with --current over this one
Jump ==
    \E target \in JumpTargets, current_repo_only \in BOOLEAN :
        \E out \in {jump_worktree(Cur, target, current_repo_only)} :
           /\ Apply(out.st)
           /\ last' = Last(IF current_repo_only THEN "jump_current" ELSE "jump",
                           target, out)
           /\ UNCHANGED toolCreated

NextJump ==
    \/ Next
    \/ Jump

\* the tool with the jump command
SpecJump == Init /\ [][NextJump]_vars

\* `worktree remove <absolute path>` with or without --preserve-branch
RemovePath ==
    \E target \in AbsTargets, preserve_branch \in BOOLEAN :
        \E out \in {remove_worktree_with_provider(Cur, target, preserve_branch)} :
           /\ Apply(out.st)
           /\ last' = Last(IF preserve_branch THEN "remove_preserve" ELSE "remove",
                           target, out)
           /\ UNCHANGED toolCreated

\* `worktree sync-config <from> <to>`
SyncConfig ==
    \E from \in SyncTargets, to \in SyncTargets :
        \E out \in {sync_config(Cur, from, to)} :
           /\ Apply(out.st)
           /\ last' = Last("sync_config", <<from, to>>, out)
           /\ UNCHANGED toolCreated

NextPaths ==
    \/ Next
    \/ RemovePath
    \/ SyncConfig

\* the tool with absolute paths as targets, and the sync-config command
SpecPaths == Init /\ [][NextPaths]_vars

\* a `worktree create` that succeeds
CreateOk ==
    \E branch \in Targets, mode \in Modes :
        \E out \in {create_worktree_internal(Cur, branch, mode)} :
           /\ out.res = "ok"
           /\ Apply(out.st)
           /\ toolCreated' = toolCreated \cup (out.st.branches \ branches)
           /\ last' = Last("create", branch, out)

\* a `worktree remove` that succeeds
RemoveOk ==
    \E target \in Targets, preserve_branch \in BOOLEAN :
        \E out \in {remove_worktree_with_provider(Cur, target, preserve_branch)} :
           /\ out.res = "ok"
           /\ Apply(out.st)
           /\ last' = Last(IF preserve_branch THEN "remove_preserve" ELSE "remove",
                           target, out)
           /\ UNCHANGED toolCreated

NextTool ==
    \/ CreateOk
    \/ RemoveOk

\* the runs that consist of successful create and remove commands only
SpecTool == Init /\ [][NextTool]_vars

\* a branch whose name ends in ".tmp"
BrATmp == <<"a", ".", "t", "m", "p">>

\* the branches that are marked, asked about and unmarked
MarkNames == {BrA, BrATmp, BrAbSlashA}

\* flag_path.with_extension("tmp")
TmpPath(branch_name) ==
    with_extension(get_managed_branch_flag_path(branch_name), <<"t", "m", "p">>)

\* what the steps of the second process leave alone
RegistryFrame ==
    UNCHANGED <<branches, dirs, regs, origins, envFiles, toolCreated, steps>>

\* mark_branch_managed, first step: create_dir_all(<root>/<repo>/.managed-branches)
MarkCreateDir ==
    \E branch_name \in MarkNames :
        /\ writer = Idle
        /\ writer' = [pc |-> "open_tmp", branch |-> branch_name]
        /\ repoDir' = TRUE
        /\ rootDir' = TRUE
        /\ last' = Last("mark_branch_managed", branch_name,
                        Outcome("create_dir_all", Cur, {}, {}))
        /\ UNCHANGED <<managed, partial, mapping>>
        /\ RegistryFrame

\* fs::write(tmp_path, "1"), first half: the file is created, or truncated, empty
MarkOpenTmp ==
    /\ writer.pc = "open_tmp"
    /\ writer' = [writer EXCEPT !.pc = "write_tmp"]
    /\ managed' = managed \cup {TmpPath(writer.branch)}
    /\ partial' = partial \cup {TmpPath(writer.branch)}
    /\ last' = Last("mark_branch_managed", writer.branch,
                    Outcome("open", Cur, {}, {}))
    /\ UNCHANGED <<repoDir, rootDir, mapping>>
    /\ RegistryFrame

\* fs::write(tmp_path, "1"), second half: the content is written
MarkWriteTmp ==
    /\ writer.pc = "write_tmp"
    /\ writer' = [writer EXCEPT !.pc = "rename"]
    /\ partial' = partial \ {TmpPath(writer.branch)}
    /\ last' = Last("mark_branch_managed", writer.branch,
                    Outcome("write_all", Cur, {}, {}))
    /\ UNCHANGED <<managed, repoDir, rootDir, mapping>>
    /\ RegistryFrame

\* fs::rename(tmp_path, flag_path): fails when the temporary file is gone, does
\* nothing when both paths are the same file, else replaces the marker
MarkRename ==
    /\ writer.pc = "rename"
    /\ writer' = Idle
    /\ LET tmp_path == TmpPath(writer.branch)
           flag_path == get_managed_branch_flag_path(writer.branch)
       IN IF tmp_path \notin managed
          THEN /\ UNCHANGED <<managed, partial>>
               /\ last' = Last("mark_branch_managed", writer.branch,
                               Outcome("rename_failed", Cur, {}, {}))
          ELSE /\ managed' = (managed \ {tmp_path}) \cup {flag_path}
               /\ partial' = IF tmp_path \in partial
                             THEN (partial \ {tmp_path}) \cup {flag_path}
                             ELSE partial \ {tmp_path, flag_path}
               /\ last' = Last("mark_branch_managed", writer.branch,
                               Outcome("ok", Cur, {}, {}))
    /\ UNCHANGED <<repoDir, rootDir, mapping>>
    /\ RegistryFrame

\* is_branch_managed, called by this process while the other one is writing
IsBranchManaged ==
    \E branch_name \in MarkNames :
        /\ last' = Last("is_branch_managed", branch_name,
                        Outcome(IF is_branch_managed(managed, branch_name)
                                THEN "true" ELSE "false", Cur, {}, {}))
        /\ UNCHANGED <<writer, managed, partial, repoDir, rootDir, mapping>>
        /\ RegistryFrame

\* unmark_branch_managed, called by this process: remove_file if the marker exists
UnmarkBranchManaged ==
    \E branch_name \in MarkNames :
        /\ is_branch_managed(managed, branch_name)
        /\ managed' = unmark_branch_managed(managed, branch_name)
        /\ partial' = partial \ {get_managed_branch_flag_path(branch_name)}
        /\ last' = Last("unmark_branch_managed", branch_name,
                        Outcome("ok", Cur, {}, {}))
        /\ UNCHANGED <<writer, repoDir, rootDir, mapping>>
        /\ RegistryFrame

NextMarker ==
    \/ MarkCreateDir
    \/ MarkOpenTmp
    \/ MarkWriteTmp
    \/ MarkRename
    \/ IsBranchManaged
    \/ UnmarkBranchManaged

\* one process marks branches, step by step, while another reads and unmarks
SpecMarker == Init /\ [][NextMarker]_vars

\* the rewrites of the mapping file: store_branch_mapping and
\* remove_branch_mapping of a branch, and the second pass of cleanup
MappingWriters ==
    {<<"store_branch_mapping", b>> : b \in Targets}
        \cup {<<"remove_branch_mapping", b>> : b \in Targets}
        \cup {<<"cleanup", <<>>>>}

\* the content a writer computes from the file it has read
NewMapping(st, w) ==
    CASE w[1] = "store_branch_mapping" ->
             store_branch_mapping(st.mapping, w[2], sanitize_branch_name(w[2]))
      [] w[1] = "remove_branch_mapping" -> remove_branch_mapping(st.mapping, w[2])
      [] OTHER -> CleanupMappings(st).mapping

\* whether the writer calls fs::write: store_branch_mapping when the row is
\* new, remove_branch_mapping when the file exists, cleanup when it drops a row
WritesMapping(st, w) ==
    IF w[1] = "remove_branch_mapping" THEN st.mapping.exists
    ELSE NewMapping(st, w) # st.mapping

\* a writer of the mapping file reads it and computes the new content
MappingRead ==
    \E w \in MappingWriters :
        /\ writer = Idle
        /\ WritesMapping(Cur, w)
        /\ writer' = [pc |-> "create", old |-> mapping, new |-> NewMapping(Cur, w)]
        /\ last' = Last(w[1], w[2], Outcome("read", Cur, {}, {}))
        /\ steps < MaxSteps
        /\ steps' = steps + 1
        /\ UNCHANGED <<mapping, managed, partial, repoDir, rootDir>>
        /\ UNCHANGED <<branches, dirs, regs, origins, envFiles, toolCreated>>

\* fs::write(mapping_file, content), first half: File::create truncates the file
MappingTruncate ==
    /\ writer.pc = "create"
    /\ writer' = [writer EXCEPT !.pc = "write_all"]
    /\ mapping' = File(<<>>)
    /\ last' = [last EXCEPT !.res = "create"]
    /\ steps' = steps + 1
    /\ UNCHANGED <<managed, partial, repoDir, rootDir>>
    /\ UNCHANGED <<branches, dirs, regs, origins, envFiles, toolCreated>>

\* fs::write(mapping_file, content), second half: the content is written
MappingWriteAll ==
    /\ writer.pc = "write_all"
    /\ writer' = Idle
    /\ mapping' = writer.new
    /\ last' = [last EXCEPT !.res = "ok"]
    /\ steps' = steps + 1
    /\ UNCHANGED <<managed, partial, repoDir, rootDir>>
    /\ UNCHANGED <<branches, dirs, regs, origins, envFiles, toolCreated>>

\* get_original_branch_name, called by this process: it reads the whole file
GetOriginalBranchName ==
    \E sanitized_name \in DirNames :
        /\ last' = Last("get_original_branch_name", sanitized_name,
                        Outcome(IF get_original_branch_name(mapping, sanitized_name) = None
                                THEN "none" ELSE "some", Cur, {}, {}))
        /\ steps < MaxSteps
        /\ steps' = steps + 1
        /\ UNCHANGED <<writer, mapping, managed, partial, repoDir, rootDir>>
        /\ UNCHANGED <<branches, dirs, regs, origins, envFiles, toolCreated>>

\* the commands of this process, run while no other process is writing
Command ==
    /\ writer = Idle
    /\ \/ Create
       \/ Remove

NextMapping ==
    \/ Command
    \/ MappingRead
    \/ MappingTruncate
    \/ MappingWriteAll
    \/ GetOriginalBranchName

\* one process rewrites the mapping file, step by step, while another reads it
SpecMapping == Init /\ [][NextMapping]_vars

\* the patterns of the user's pattern lists: a new one, one below a default
\* exclude, a default include, a default exclude
UserPatterns == {PMise, PNodeCache, PVscodeDir, PNodeModulesDir}

\* Option<Vec<String>>: no list, or a list of up to MaxPatterns patterns
UserLists ==
    {None} \cup {Some(l) : l \in UNION {[1..n -> UserPatterns] : n \in 0..MaxPatterns}}

\* what the steps on the configuration leave alone
ConfigFrame ==
    UNCHANGED <<branches, dirs, regs, mapping, origins, managed, repoDir, rootDir,
                envFiles, writer, partial, toolCreated, steps>>

\* the result of a function: its name, its input and its output
Returned(op, arg, res) ==
    [op |-> op, arg |-> arg, res |-> res, attempted |-> {}, deleted |-> {}]

\* merged_with_defaults applied, once in a run, to a parsed user configuration
MergeConfig ==
    \E include \in UserLists, exclude \in UserLists :
        /\ last.op = "init"
        /\ last' = Returned("merged_with_defaults", CopyPatterns(include, exclude),
                            merged_with_defaults(CopyPatterns(include, exclude)))
        /\ ConfigFrame

\* the files of a source directory
SourceFiles ==
    {EnvFile,
     <<".", "v", "s", "c", "o", "d", "e", "/", "s", "e", "t", "t", "i", "n", "g", "s", ".", "j", "s", "o", "n">>,
     <<".", "v", "s", "c", "o", "d", "e", "/", "d", "e", "b", "u", "g", ".", "l", "o", "g">>,
     <<"n", "o", "d", "e", "_", "m", "o", "d", "u", "l", "e", "s", "/", ".", "c", "a", "c", "h", "e", "/", "v">>,
     PMise,
     <<"a", "p", "p", ".", "l", "o", "g">>}

\* the .worktree-config.toml of the repository: none, or its copy patterns
ConfigFiles ==
    {None} \cup {Some(CopyPatterns(include, exclude)) :
                    include \in {None, Some(<<PMise>>), Some(<<PNodeCache>>)},
                    exclude \in {None, Some(<<PVscodeDir>>)}}

\* copy_config_files from the repository, once in a run, with the
\* configuration loaded from it
CopyConfig ==
    \E files \in SUBSET SourceFiles, config_file \in ConfigFiles :
      \E tree \in {{file \in SourceFiles : file \in files}} :
        /\ last.op = "init"
        /\ last' = Returned("copy_config_files",
                            [tree |-> tree, config_file |-> config_file],
                            {file \in tree :
                                file \in CopiedFiles(RepoPath, tree,
                                                     load_from_repo(config_file))})
        /\ ConfigFrame

NextCopy ==
    \/ MergeConfig
    \/ CopyConfig

\* the copy patterns: their merge with the defaults and the copy they drive
SpecCopy == Init /\ [][NextCopy]_vars

----------------------------------------------------------------------------
(* Properties *)

\* the key -> value rows of a file, in file order
Rows(file) ==
    LET IsRow(line) == split_once(line) # None
    IN [i \in 1..Len(SelectSeq(file.lines, IsRow)) |->
           Unwrap(split_once(SelectSeq(file.lines, IsRow)[i]))]

RemoveOps == {"remove", "remove_preserve"}

\* the registry and the repository are as they were
NothingChanged ==
    UNCHANGED <<branches, dirs, regs, mapping, origins, managed, repoDir, envFiles>>

\* the case of C1: a name without sanitizable characters whose directory
\* exists, with no mapping row keyed by it and no branch of that name
Unresolvable(t) ==
    /\ \A i \in DOMAIN t : t[i] \notin UnsafeChars
    /\ t \in dirs
    /\ \A i \in DOMAIN Rows(mapping) : Rows(mapping)[i][1] # t
    /\ t \notin branches

\* C1: remove of a name without sanitizable characters, whose directory exists,
\* which keys no mapping row and names no local branch, fails with the
\* "cannot determine canonical branch name" error and deletes no directory, no
\* registration and no branch.
C1_ResolutionSafety ==
    [][\A t \in Targets :
          (last'.op \in RemoveOps /\ last'.arg = t /\ Unresolvable(t))
              => (last'.res = "cannot_determine_canonical" /\ NothingChanged)]_vars

C1_Witness ==
    /\ last.op = "remove"
    /\ last.res = "cannot_determine_canonical"
    /\ Unresolvable(last.arg)

\* C2: after store_branch_mapping(repo, c, s) returns Ok (here: inside a create
\* that succeeded), get_original_branch_name(repo, s) returns Some(c).
C2_PutThenGet ==
    (last.op = "create" /\ last.res = "ok")
        => get_original_branch_name(mapping, get_worktree_path(last.arg)) = Some(last.arg)

\* C3: the mapping file holds at most one row per sanitized key.
C3_MappingUnique ==
    \A i, j \in DOMAIN Rows(mapping) :
        i # j => Rows(mapping)[i][1] # Rows(mapping)[j][1]

\* the rows of a file whose value is not c, in file order
RowsOtherThan(file, c) ==
    LET Other(row) == row[2] # c IN SelectSeq(Rows(file), Other)

\* C4: after remove_branch_mapping(repo, c) (here: inside a remove that deleted
\* branch c), get_original_branch_name(repo, sanitize(c)) returns None, the rows
\* of other branches are kept unchanged and in order, and an absent mapping
\* file stays absent.
C4_RemoveThenGet ==
    [][(last'.op = "remove" /\ last'.res = "ok")
          => \A c \in last'.deleted :
                /\ get_original_branch_name(mapping', sanitize_branch_name(c)) = None
                /\ RowsOtherThan(mapping', c) = RowsOtherThan(mapping, c)
                /\ ~mapping.exists => ~mapping'.exists]_vars

\* C5: a branch is marked managed only if the create command created it.
C5_ManagedSoundness ==
    \A b \in branches : is_branch_managed(managed, b) => b \in toolCreated

\* C6: a branch deleted by remove or by cleanup is not marked managed afterwards.
C6_ManagedClearedOnDeletion ==
    last.op \in {"remove", "cleanup"}
        => \A b \in last.deleted : ~is_branch_managed(managed, b)

\* the branches cleanup's first pass has to try: local, not main or master,
\* without a worktree directory
OrphanedBranches ==
    {b \in branches : /\ b \notin {BrMain, BrMaster}
                      /\ sanitize_branch_name(b) \notin dirs}

C8_CleanupOnlyManaged ==
    [][last'.op = "cleanup"
          => \A b \in branches \ branches' : is_branch_managed(managed, b)]_vars

\* the worktree directories whose branch, by the mapping file, is gone
DirsOfDeletedBranches ==
    {d \in dirs : \E i \in DOMAIN Rows(mapping) :
                      /\ Rows(mapping)[i][1] = d
                      /\ Rows(mapping)[i][2] \notin branches}

C10_CleanupPrunesOrphanedDirs ==
    last.op = "cleanup" => DirsOfDeletedBranches = {}

RowsWithDir(file, ds) ==
    LET HasDir(row) == row[1] \in ds IN SelectSeq(Rows(file), HasDir)

RoundTrip(t) ==
    /\ \A i \in DOMAIN t : t[i] \notin UnsafeChars
    /\ t \in dirs
    /\ \A i \in DOMAIN Rows(mapping) : Rows(mapping)[i][1] # t
    /\ t \in branches

ResolutionErrors ==
    {"cannot_determine_canonical", "no_worktree_for_branch",
     "no_worktree_matching", "path_missing"}

\* C16: for a name without sanitizable characters, whose directory exists, which
\* keys no mapping row and names a local branch, resolve_target returns the
\* storage path of the name and the name itself, so that remove goes on to
\* delete that directory and reports no resolution error.
C16_ResolutionRoundTrip ==
    [][\A t \in Targets :
          (last'.op \in RemoveOps /\ last'.arg = t /\ RoundTrip(t))
              => /\ resolve_target(t, Cur) = Resolved(get_worktree_path(t), t)
                 /\ last'.res \notin ResolutionErrors
                 /\ t \notin dirs']_vars

\* remove --preserve-branch a has succeeded while a had no mapping row and was
\* a branch (the command leaves the branches and the mapping file as they were)
C16_Witness ==
    /\ last.op = "remove_preserve"
    /\ last.arg = BrA
    /\ last.res = "ok"
    /\ BrA \in branches
    /\ BrA \notin dirs
    /\ \A i \in DOMAIN Rows(mapping) : Rows(mapping)[i][1] # BrA

\* C18: a successful remove --preserve-branch removes the worktree directory,
\* its git registration and its origin row, and leaves the branches, the
\* mapping file and the managed markers as they were; a create of the same
\* branch right after it (one that does not ask for a new branch) succeeds and
\* creates no branch.
C18_PreserveBranch ==
    [][/\ (last'.op = "remove_preserve" /\ last'.res = "ok")
            => LET p == get_worktree_path(last'.arg)
               IN /\ p \notin dirs'
                  /\ ~regs'[p].registered
                  /\ \A i \in DOMAIN Rows(origins') : Rows(origins')[i][1] # p
                  /\ UNCHANGED <<branches, mapping, managed>>
       /\ (/\ last.op = "remove_preserve" /\ last.res = "ok"
           /\ last'.op = "create" /\ last'.arg = last.arg /\ last.arg \in branches
           /\ last'.res # "branch_exists")
            => (last'.res = "ok" /\ branches' = branches)]_vars

\* C19: remove of a worktree whose HEAD is detached succeeds, removes the
\* directory and deletes no branch.
C19_DetachedHeadKeepsBranch ==
    [][\A t \in Targets :
          (/\ last'.op = "remove" /\ last'.arg = t
           /\ get_worktree_path(t) \in dirs
           /\ regs[get_worktree_path(t)] = Reg(None))
              => /\ last'.res \notin ResolutionErrors => last'.res = "ok"
                 /\ last'.res = "ok" => get_worktree_path(t) \notin dirs'
                 /\ branches' = branches]_vars

\* C12: whatever fails inside a cleanup, its third pass runs: after every
\* cleanup no git registration with a branch is left whose directory is gone;
\* and unless the write of the mapping file itself failed, no mapping row is
\* left whose directory is gone.
C12_CleanupPassesIndependent ==
    last.op = "cleanup"
        => /\ OrphanedWorktrees(Cur) = {}
           /\ last.res # "write_mapping_failed"
                 => Rows(mapping) = RowsWithDir(mapping, dirs)

\* C14: when a remove stops after some of its mutations, one cleanup that runs
\* right after it leaves nothing that refers to the removed worktree: not its
\* branch, no mapping row, no origin row, no managed marker, no git registration.
C14_CrashRepairable ==
    [][(last.op = "remove_crash" /\ last'.op = "cleanup" /\ last'.res = "ok")
          => LET p == get_worktree_path(last.arg)
             IN /\ ~regs'[p].registered
                /\ \A b \in last.attempted :
                      /\ b \notin branches'
                      /\ ~is_branch_managed(managed', b)
                      /\ \A i \in DOMAIN Rows(mapping') : Rows(mapping')[i][2] # b
                /\ \A i \in DOMAIN Rows(mapping') : Rows(mapping')[i][1] # p
                /\ \A i \in DOMAIN Rows(origins') : Rows(origins')[i][1] # p]_vars

JumpOps == {"jump", "jump_current"}

\* the worktrees a jump to `target` has to choose among: those named exactly
\* `target`, or, when there is none, those whose name contains it
Candidates(worktrees, target) ==
    LET exact == {i \in DOMAIN worktrees : worktrees[i].branch = target}
    IN IF exact # {} THEN exact
       ELSE {i \in DOMAIN worktrees : Contains(worktrees[i].branch, target)}

\* C15: jump returns a path only when exactly one worktree of the selected scope
\* matches the target; with several it fails as ambiguous, with none it fails
\* with "No worktree found matching".
C15_JumpNeverGuesses ==
    last.op \in JumpOps
        => LET n == Cardinality(Candidates(
                        get_available_worktrees(Cur, last.op = "jump_current"),
                        last.arg))
           IN /\ last.res = "ok" <=> n = 1
              /\ n > 1 => last.res = "ambiguous"
              /\ n = 0 => last.res = "no_match"

\* C17: remove of, and sync-config from or to, an absolute path outside the
\* repository's storage directory fails, with the invalid-path error unless
\* another check fails first, and copies, deletes and writes nothing.
C17_OutsidePathsRejected ==
    [][(\/ last'.op \in RemoveOps /\ last'.arg = OutsideDir
        \/ last'.op = "sync_config" /\ OutsideDir \in {last'.arg[1], last'.arg[2]})
          => /\ last'.res # "ok"
             /\ last'.op \in RemoveOps => last'.res = "invalid_path"
             /\ NothingChanged]_vars

PreflightFailures == {"path_exists", "branch_exists", "branch_missing"}

\* C20 as stated: a create that fails in its pre-flight checks creates no
\* branch and no directory and leaves the mapping file, the origin file and
\* the managed markers as they were.
C20_PreflightChangesNothing ==
    [][(last'.op = "create" /\ last'.res \in PreflightFailures)
          => (NothingChanged /\ UNCHANGED rootDir)]_vars

\* C20, amended: create fails when the storage path of the branch exists, when
\* a new branch is asked for and the branch exists, and when an existing
\* branch is asked for and there is none; such a create creates the storage
\* root if it is missing and changes nothing else.
C20_PreflightChangesOnlyRoot ==
    [][\A b \in Targets :
          (last'.op = "create" /\ last'.arg = b)
             => /\ get_worktree_path(b) \in dirs => last'.res = "path_exists"
                /\ last'.res = "branch_exists" => b \in branches
                /\ last'.res = "branch_missing" => b \notin branches
                /\ last'.res \in PreflightFailures => (NothingChanged /\ rootDir')]_vars

\* a create --new-branch of an existing branch has failed while the registry
\* held a worktree, and the storage root is there
C20_Witness ==
    /\ last.op = "create"
    /\ last.res = "branch_exists"
    /\ dirs # {}
    /\ mapping.exists
    /\ rootDir

\* the keys of the rows of a file
Keys(file) == {Rows(file)[i][1] : i \in DOMAIN Rows(file)}

\* C21: after successful create and remove commands only, the origin file has
\* a row for a sanitized name exactly when the worktree directory of that name
\* exists, and get_worktree_origin of a branch whose worktree exists returns
\* the repository path its create stored.
C21_OriginLifecycle ==
    /\ \A s \in DirNames : s \in Keys(origins) <=> s \in dirs
    /\ \A b \in Targets :
          get_worktree_path(b) \in dirs
              => get_worktree_origin(origins, b) = Some(RepoPath)

\* the number of lines of an output that are equal to x
CountIn(output, x) == Cardinality({i \in DOMAIN output : output[i] = x})

\* the branch names `create` was given for the worktrees whose directories
\* exist: with create and remove commands only, the HEAD of each worktree
CanonicalNames == [i \in DOMAIN list_repo_worktrees(Cur) |->
                      Unwrap(regs[list_repo_worktrees(Cur)[i]].head)]

\* C22: after successful create and remove commands only, the completions of
\* this repository are exactly the original branch names of the worktrees whose
\* directories exist, one line per worktree, and nothing when there is none.
C22_CompletionsTrackWorktrees ==
    \A b \in Targets :
        CountIn(list_worktree_completions(Cur, TRUE), b) = CountIn(CanonicalNames, b)

\* C23: is_branch_managed that runs while mark_branch_managed is writing never
\* finds the marker path of a branch in existence before the content of the
\* marker is written.
C23_AtomicMarker ==
    (last.op = "is_branch_managed" /\ last.res = "true")
        => get_managed_branch_flag_path(last.arg) \notin partial

\* C24: get_original_branch_name that runs while another process rewrites the
\* mapping file reads either the content the writer found or the content the
\* writer is writing, never an empty or a partly written file.
C24_MappingRewriteAtomic ==
    (last.op = "get_original_branch_name" /\ writer # Idle)
        => mapping.lines \in {writer.old.lines, writer.new.lines}

\* the index of the first occurrence of x in seq
FirstIndex(seq, x) == Least({i \in DOMAIN seq : seq[i] = x})

\* merged is defaults followed by the patterns of user that are not in
\* defaults, each once, in the order of their first occurrence in user
MergedAsSpecified(defaults, user, merged) ==
    /\ Len(merged) >= Len(defaults)
    /\ SubSeq(merged, 1, Len(defaults)) = defaults
    /\ \A i, j \in DOMAIN merged : i # j => merged[i] # merged[j]
    /\ Range(merged) = Range(defaults) \cup Range(user)
    /\ \A i, j \in (Len(defaults) + 1)..Len(merged) :
          i < j => FirstIndex(user, merged[i]) < FirstIndex(user, merged[j])

\* the list of an Option<Vec<String>>, empty for None
ListOf(opt) == IF opt = None THEN <<>> ELSE Unwrap(opt)

Covers(pattern, file) ==
    \E entry \in {file} \cup Ancestors(file) :
        IF IsGlob(pattern) THEN GlobMatches(pattern, entry, FALSE)
        ELSE entry = pattern \/ entry \o <<"/">> = pattern

\* the configuration a copy has used
UsedConfig == load_from_repo(last.arg.config_file)

\* C26: copy_config_files copies a file only if the file matches an include
\* pattern and no exclude pattern; a file that matches both is not copied.
C26_ExcludeHasPrecedence ==
    last.op = "copy_config_files"
        => \A file \in last.res :
              /\ \E i \in DOMAIN Unwrap(UsedConfig.include) :
                    Covers(Unwrap(UsedConfig.include)[i], file)
              /\ ~should_exclude_file(RepoPath \o <<"/">> \o file,
                                      Unwrap(UsedConfig.exclude))

\* C27: a file that matches an include pattern of the user configuration, and
\* no exclude pattern of the user configuration, is copied, also when a default
\* exclude pattern matches it.
C27_UserIncludesWin ==
    (last.op = "copy_config_files" /\ last.arg.config_file # None)
        => LET user == Unwrap(last.arg.config_file)
           IN \A pattern \in Range(ListOf(user.include)), file \in last.arg.tree :
                 (/\ Covers(pattern, file)
                  /\ ~should_exclude_file(RepoPath \o <<"/">> \o file,
                                          ListOf(user.exclude)))
                     => file \in last.res

\* the rows of `before` that are not rows of `after`
RemovedRows(before, after) ==
    {Rows(before)[i] : i \in DOMAIN Rows(before)} \ {Rows(after)[i] : i \in DOMAIN Rows(after)}

\* the branch resolve_target returns for a target, and the branch the mapping
\* file registers for the directory it returns
RegisteredBranches(t) ==
    LET rt == resolve_target(t, Cur)
        row == get_original_branch_name(mapping, rt.path)
    IN {rt.branch} \cup (IF row # None THEN {Unwrap(row)} ELSE {})

\* C28: a successful remove without --preserve-branch deletes, unmarks and
\* drops the mapping and origin rows of no branch other than the canonical
\* branch that resolve_target returned for the target, whatever the HEAD of the
\* worktree is.
C28_RemoveOnlyResolvedBranch ==
    [][\A t \in Targets :
          (last'.op = "remove" /\ last'.arg = t /\ last'.res = "ok")
              => \E canonical \in RegisteredBranches(t) :
                    /\ last'.attempted \subseteq {canonical}
                    /\ branches \ branches' \subseteq {canonical}
                    /\ managed \ managed' \subseteq {get_managed_branch_flag_path(canonical)}
                    /\ \A row \in RemovedRows(mapping, mapping') : row[2] = canonical
                    /\ \A row \in RemovedRows(origins, origins') :
                          row[1] = sanitize_branch_name(canonical)]_vars

\* C29: a cleanup that follows a successful remove --preserve-branch does not
\* delete the branch that remove has preserved.
C29_PreservedBranchSurvivesCleanup ==
    [][(/\ last.op = "remove_preserve" /\ last.res = "ok"
        /\ last'.op = "cleanup")
          => (last.arg \in branches => last.arg \in branches')]_vars

\* C30: whenever resolve_target returns a path and a canonical name, and the
\* mapping file has a row keyed by the directory name of the path, the
\* canonical name is the one of that row.
C30_ResolutionAgreesWithRegistry ==
    \A t \in Targets :
        LET rt == resolve_target(t, Cur)
            row == get_original_branch_name(mapping, rt.path)
        IN (rt.ok /\ row # None) => rt.branch = Unwrap(row)

====
